---- MODULE Spec2Model ----
(***************************************************************************)
(* The portfolio backend (src/unnamed/part_000): an Express application    *)
(* whose routes run chains of middleware over five Mongoose collections    *)
(* and a mail transport.  Every `await` of a handler is a point where      *)
(* another request may run, so each awaited call is one action.            *)
(*                                                                         *)
(* Spec        : NumReqs requests, each from the moment the application    *)
(*               level limiter (line 52) has admitted it to its response,  *)
(*               interleaved at every await.                               *)
(* SpecLimiter : the two rate limiters alone, over a run of requests.      *)
(* SpecValidator : one contact submission, over every body the validation  *)
(*               tells apart.                                              *)
(***************************************************************************)
EXTENDS Integers, Sequences, FiniteSets, TLC

\* ------------------------------------------------------------------ bounds
NumReqs == 2
MaxLimiterReqs == 7
MaxEmailLen == 5

Reqs == 1..NumReqs
Addrs == {"ip1", "ip2"}

\* ------------------------------------------------------- program constants
ContactMax == 5
GeneralMax == 100

ContactLimitMessage == "Too many contact form submissions, please try again later."
GeneralLimitMessage == "Too many requests from this IP, please try again later."

\* ContactSchema.status: the enum and the default
StatusEnum == {"new", "read", "replied", "archived"}
DefaultStatus == "new"

\* ------------------------------------------------------------------ inputs
TrackedRoutes == {"POST /api/contact", "GET /api/projects", "GET /api/blog",
                  "GET /api/blog/:slug"}
ProtectedRoutes == {"GET /api/analytics", "POST /api/projects",
                    "GET /api/admin/contacts", "PATCH /api/admin/contacts/:id"}
Routes == TrackedRoutes \cup ProtectedRoutes

\* A value of the JSON body of POST /api/contact: undefined (the key is not
\* there), null, a string, or an array holding one string (a truthy value
\* that has no trim() and that String() turns into the string it holds).
\* chars is the text of a string or of the array's element.
Chars == {"a", "@", ".", " "}
Value(t, cs) == [type |-> t, chars |-> cs]
Undefined == Value("undefined", <<>>)
Null == Value("null", <<>>)
Str(cs) == Value("string", cs)
Arr(cs) == Value("array", cs)

Text == Str(<<"a">>)
Blank == Str(<<" ">>)
OkEmail == Str(<<"a", "@", "a", ".", "a">>)
BadEmail == Str(<<"a", "@", "a">>)

Body(n, e, s, m) == [name |-> n, email |-> e, subject |-> s, message |-> m]
ContactBodies ==
    { Body(Text, OkEmail, Text, Text),
      Body(Undefined, OkEmail, Text, Text),
      Body(Text, Undefined, Text, Text),
      Body(Text, OkEmail, Undefined, Text),
      Body(Text, OkEmail, Text, Undefined),
      Body(Text, BadEmail, Text, Text),
      Body(Text, OkEmail, Text, Blank),
      Body(Arr(<<"a">>), OkEmail, Text, Text) }
NoBody == Body(Undefined, Undefined, Undefined, Undefined)

\* Every body the validation can tell apart: any email up to MaxEmailLen
\* characters, sent as a string or inside an array, next to three good
\* fields; and a good email next to every mix of the other three fields.
Strings(n) == UNION { [1..k -> Chars] : k \in 0..n }
EmailValues ==
    {Undefined, Null}
    \cup { Str(cs) : cs \in Strings(MaxEmailLen) }
    \cup { Arr(cs) : cs \in Strings(MaxEmailLen) }
FieldValues == {Undefined, Null, Str(<<>>), Blank, Text, Arr(<<"a">>)}
ValidatorBodies ==
    { Body(Text, e, Text, Text) : e \in EmailValues }
    \cup { Body(n, OkEmail, s, m) : n \in FieldValues, s \in FieldValues, m \in FieldValues }

\* Blog posts are written to the collection outside this program; the
\* program only reads them and bumps views.
Slugs == {"post"}
RequestSlugs == Slugs \cup {"unknown"}

\* The Authorization header: none; malformed (no second word after the
\* scheme); a token jwt.verify refuses (invalid signature, expired); valid.
Tokens == {"none", "malformed", "invalid", "expired", "valid"}

\* The multipart part named image: none; an image within the limit; a type
\* outside the allow-list; an image over 5MB.
Files == {"none", "image", "badtype", "toolarge"}

\* The body of POST /api/projects: ok; notech (no technologies field);
\* notitle (a required field of ProjectSchema is missing).
ProjectBodies == {"ok", "notech", "notitle"}

\* PATCH /api/admin/contacts/:id: the id is the position of a record (stored
\* or not), or 0 for a string that is no ObjectId; body.status is any string,
\* or absent.
PatchIds == 0..NumReqs
PatchStatuses == StatusEnum \cup {"bogus", "absent"}

Request(rt, a, b, sl, tk, f, pb, id, st) ==
    [id |-> id, route |-> rt, addr |-> a, body |-> b, slug |-> sl,
     token |-> tk, file |-> f, pbody |-> pb, status |-> st]
NoRequest == Request("-", "-", NoBody, "-", "-", "-", "-", 0, "-")

\* The requests of each route, with the inputs the route reads.  A protected
\* route reads nothing but the token unless the token is valid.
ContactRequests(as) ==
    { Request("POST /api/contact", a, b, "-", "-", "-", "-", 0, "-") :
        a \in as, b \in ContactBodies }
ValidatorRequests ==
    { Request("POST /api/contact", "ip1", b, "-", "-", "-", "-", 0, "-") :
        b \in ValidatorBodies }
ListRequests(as) ==
    { Request(rt, a, NoBody, "-", "-", "-", "-", 0, "-") :
        rt \in {"GET /api/projects", "GET /api/blog"}, a \in as }
BlogRequests(as) ==
    { Request("GET /api/blog/:slug", a, NoBody, sl, "-", "-", "-", 0, "-") :
        a \in as, sl \in RequestSlugs }
RefusedRequests ==
    { Request(rt, "ip1", NoBody, "-", tk, "-", "-", 0, "-") :
        rt \in ProtectedRoutes, tk \in Tokens \ {"valid"} }
ReadRequests ==
    { Request(rt, "ip1", NoBody, "-", "valid", "-", "-", 0, "-") :
        rt \in {"GET /api/analytics", "GET /api/admin/contacts"} }
ProjectRequests ==
    { Request("POST /api/projects", "ip1", NoBody, "-", "valid", f, pb, 0, "-") :
        f \in Files, pb \in ProjectBodies }
PatchRequests ==
    { Request("PATCH /api/admin/contacts/:id", "ip1", NoBody, "-", "valid", "-", "-", id, st) :
        id \in PatchIds, st \in PatchStatuses }

\* One address on every tracked route; the contact bodies are those that
\* differ in the email alone.
TrackedRequests ==
    { rq \in ContactRequests({"ip1"}) :
        rq.body.name = Text /\ rq.body.subject = Text /\ rq.body.message = Text }
    \cup ListRequests({"ip1"}) \cup BlogRequests({"ip1"})

AdminRequests == RefusedRequests \cup ReadRequests \cup ProjectRequests \cup PatchRequests
AllRequests ==
    ContactRequests(Addrs) \cup ListRequests(Addrs) \cup BlogRequests(Addrs)
    \cup AdminRequests

\* ------------------------------------------------------------------- state
VARIABLES
    req,          \* req[r]: the request in slot r (NoRequest before it arrives)
    pc,           \* pc[r]: where the handling of r stands
    resp,         \* resp[r]: the response sent, [code, message]; code 0 = none yet
    nresp,        \* nresp[r]: how many responses were sent for r
    user,         \* user[r]: req.user was attached by authenticateToken
    ran,          \* ran[r]: how many times the route's handler body was entered
    found,        \* found[r]: trackVisitor's `visitor`: position found, 0 = null
    viewsRead,    \* viewsRead[r]: blog.views as loaded by findOne
    trk,          \* trk[r]: the tracker's outcome: "none", "ok", "failed"
    wrote,        \* wrote[r]: collections r wrote a document to
    sent,         \* sent[r]: the sendMail calls r made, in order
    fail,         \* fail[r]: the awaited handler call that rejected, "none" if none
    contacts,     \* the Contact collection, in insertion order
    visitors,     \* the Visitor collection, in insertion order
    views,        \* views[slug]: Blog.views of each stored post
    projects,     \* the Project collection
    overlap,      \* overlap[a]: two trackers of address a ran findOne..save overlapped
    contactHits,  \* contactLimiter's store: hits per address in the current window
    hits,         \* limiter's store: hits per address in the current window
    made,         \* made[a]: POST /api/contact requests of a in its contact window:
                  \*   all, and those the general limiter admitted
    last,         \* the latest request the limiters saw, and its outcome
    nlim          \* requests the limiters have seen

perReq == <<req, pc, resp, nresp, user, ran, found, viewsRead, trk, wrote, sent, fail>>
stores == <<contacts, visitors, views, projects>>
limiterVars == <<hits, made, last, nlim>>
vars == <<req, pc, resp, nresp, user, ran, found, viewsRead, trk, wrote, sent, fail,
          contacts, visitors, views, projects, overlap, contactHits, hits, made,
          last, nlim>>

NoResponse == [message |-> "", code |-> 0]
NoLast == [message |-> "", route |-> "-", addr |-> "-", code |-> 0, admitted |-> FALSE]

\* ---------------------------------------------------------------- helpers
\* res.status(code).json({message}): the one response of request r.
Reply(r, code, message) ==
    /\ resp' = [resp EXCEPT ![r] = [message |-> message, code |-> code]]
    /\ nresp' = [nresp EXCEPT ![r] = @ + 1]
    /\ pc' = [pc EXCEPT ![r] = "done"]

Goto(r, label) ==
    /\ pc' = [pc EXCEPT ![r] = label]
    /\ UNCHANGED <<resp, nresp>>

\* rateLimit's store: one more hit for the key.  A count past max + 1 is
\* kept at max + 1: only `hits > max` is ever read.
Hit(store, a, max) ==
    [store EXCEPT ![a] = IF @ > max THEN @ ELSE @ + 1]

\* OverLimit letting one request more through.
OverLimitByTwo(store, a, max) == store[a] > max + 1

\* rateLimit's test, after the hit was counted.
OverLimit(store, a, max) == store[a] > max

\* ------------------------------------------------------------------- Init
\* No request has arrived.
InitRequests ==
    /\ req = [r \in Reqs |-> NoRequest]
    /\ pc = [r \in Reqs |-> "idle"]
    /\ resp = [r \in Reqs |-> NoResponse]
    /\ nresp = [r \in Reqs |-> 0]
    /\ user = [r \in Reqs |-> FALSE]
    /\ ran = [r \in Reqs |-> 0]
    /\ found = [r \in Reqs |-> 0]
    /\ viewsRead = [r \in Reqs |-> 0]
    /\ trk = [r \in Reqs |-> "none"]
    /\ wrote = [r \in Reqs |-> {}]
    /\ sent = [r \in Reqs |-> <<>>]
    /\ fail = [r \in Reqs |-> "none"]
    /\ overlap = [a \in Addrs |-> FALSE]

\* The collections the program fills are empty; the blog posts are there.
InitStores ==
    /\ contacts = <<>>
    /\ visitors = <<>>
    /\ views = [s \in Slugs |-> 0]
    /\ projects = <<>>

\* Both limiters at the start of their windows.
InitLimiters ==
    /\ contactHits = [a \in Addrs |-> 0]
    /\ hits = [a \in Addrs |-> 0]
    /\ made = [a \in Addrs |-> [admitted |-> 0, all |-> 0]]
    /\ last = NoLast
    /\ nlim = 0

\* ip1 is at the start of its contact window or has one submission left in
\* it (submissions that failed validation while tracking failed leave every
\* collection as it was).
Init ==
    /\ InitRequests
    /\ InitStores
    /\ contactHits \in {[a \in Addrs |-> 0],
                        [a \in Addrs |-> IF a = "ip1" THEN ContactMax - 1 ELSE 0]}
    /\ hits = [a \in Addrs |-> 0]
    /\ made = [a \in Addrs |-> [admitted |-> 0, all |-> 0]]
    /\ last = NoLast
    /\ nlim = 0

\* One submission is stored, or none.
InitAdmin ==
    /\ InitRequests
    /\ contacts \in {<<>>, <<[status |-> DefaultStatus, by |-> 0, touched |-> FALSE]>>}
    /\ visitors = <<>>
    /\ views = [s \in Slugs |-> 0]
    /\ projects = <<>>
    /\ InitLimiters

\* An address is at the start of the general window, or has used it up
\* (GeneralMax requests to routes that write nothing, such as /api/health).
InitLimiter ==
    /\ InitRequests
    /\ InitStores
    /\ contactHits = [a \in Addrs |-> 0]
    /\ hits \in [Addrs -> {0, GeneralMax}]
    /\ made = [a \in Addrs |-> [admitted |-> 0, all |-> 0]]
    /\ last = NoLast
    /\ nlim = 0

\* ---------------------------------------------------------------- arrival
\* A request reaches its route.  Slots fill in order.
FirstStage(rt) ==
    IF rt = "POST /api/contact" THEN "contactLimiter"
    ELSE IF rt \in TrackedRoutes THEN "trackVisitor"
    ELSE "authenticateToken"

Arrive(r, rqs) ==
    /\ pc[r] = "idle"
    /\ \A q \in Reqs : q < r => pc[q] # "idle"
    /\ \E rq \in rqs :
        /\ req' = [req EXCEPT ![r] = rq]
        /\ Goto(r, FirstStage(rq.route))
    /\ UNCHANGED <<user, ran, found, viewsRead, trk, wrote, sent, fail>>
    /\ UNCHANGED <<stores, overlap, contactHits, limiterVars>>

\* ----------------------------------------------------------- contactLimiter
ContactLimiter(r) ==
    /\ pc[r] = "contactLimiter"
    /\ contactHits' = Hit(contactHits, req[r].addr, ContactMax)
    /\ IF OverLimit(contactHits', req[r].addr, ContactMax)
       THEN Reply(r, 429, ContactLimitMessage)
       ELSE Goto(r, "trackVisitor")
    /\ UNCHANGED <<req, user, ran, found, viewsRead, trk, wrote, sent, fail>>
    /\ UNCHANGED <<stores, overlap, limiterVars>>

\* -------------------------------------------------------------- trackVisitor
\* req.originalUrl
Page(rq) == IF rq.route = "GET /api/blog/:slug" THEN <<rq.route, rq.slug>> ELSE <<rq.route>>

\* Visitor.findOne({ ipAddress }): the first stored record of the address, 0 for null.
FindVisitor(vs, a) ==
    IF \E i \in 1..Len(vs) : vs[i].ipAddress = a
    THEN CHOOSE i \in 1..Len(vs) :
            /\ vs[i].ipAddress = a
            /\ \A j \in 1..(i - 1) : vs[j].ipAddress # a
    ELSE 0

NewVisitor(a, page) ==
    [ipAddress |-> a, visitedPages |-> <<page>>, isReturningVisitor |-> FALSE]

\* SaveVisitor inserting a new record whatever findOne returned.
SaveVisitorAlwaysNew(vs, f, a, page) == Append(vs, NewVisitor(a, page))

\* visitor.save().  For a document findOne loaded, Mongoose sends the changed
\* paths: $set of isReturningVisitor (and lastVisit) and $push of the event
\* to visitedPages, applied to the stored record.  For `new Visitor` it
\* inserts.
SaveVisitor(vs, f, a, page) ==
    IF f # 0
    THEN [vs EXCEPT ![f] = [@ EXCEPT !.isReturningVisitor = TRUE,
                                     !.visitedPages = Append(@, page)]]
    ELSE Append(vs, NewVisitor(a, page))

\* next(): the route's handler body is entered.
EnterHandler(r) ==
    /\ ran' = [ran EXCEPT ![r] = @ + 1]
    /\ Goto(r, "handler")

\* TrackerCatch answering 500 in place of calling next().
TrackerCatchAnswering(r) ==
    /\ trk' = [trk EXCEPT ![r] = "failed"]
    /\ Reply(r, 500, "Internal server error")
    /\ UNCHANGED ran

\* catch (error) { console.error(...); next(); }
TrackerCatch(r) ==
    /\ trk' = [trk EXCEPT ![r] = "failed"]
    /\ EnterHandler(r)

TrackFind(r) ==
    /\ pc[r] = "trackVisitor"
    /\ \/ \* findOne resolves
          /\ found' = [found EXCEPT ![r] = FindVisitor(visitors, req[r].addr)]
          /\ overlap' = [overlap EXCEPT ![req[r].addr] =
                            @ \/ \E q \in Reqs \ {r} :
                                    /\ pc[q] = "visitor.save"
                                    /\ req[q].addr = req[r].addr]
          /\ Goto(r, "visitor.save")
          /\ UNCHANGED <<trk, ran>>
       \/ \* findOne rejects
          /\ TrackerCatch(r)
          /\ UNCHANGED <<found, overlap>>
    /\ UNCHANGED <<req, user, viewsRead, wrote, sent, fail>>
    /\ UNCHANGED <<stores, contactHits, limiterVars>>

TrackSave(r) ==
    /\ pc[r] = "visitor.save"
    /\ \/ \* save resolves
          /\ visitors' = SaveVisitor(visitors, found[r], req[r].addr, Page(req[r]))
          /\ wrote' = [wrote EXCEPT ![r] = @ \cup {"Visitor"}]
          /\ trk' = [trk EXCEPT ![r] = "ok"]
          /\ EnterHandler(r)
       \/ \* save rejects
          /\ TrackerCatch(r)
          /\ UNCHANGED <<visitors, wrote>>
    /\ found' = [found EXCEPT ![r] = 0]
    /\ UNCHANGED <<req, user, viewsRead, sent, fail>>
    /\ UNCHANGED <<contacts, views, projects, overlap, contactHits, limiterVars>>

\* ------------------------------------------------------- POST /api/contact
\* !v : undefined, null and '' are falsy; a non-empty string and an array
\* are truthy.
Falsy(v) ==
    \/ v.type \in {"undefined", "null"}
    \/ v.type = "string" /\ v.chars = <<>>

\* String(v), which RegExp.prototype.test applies to its argument.
StringOf(v) ==
    CASE v.type = "undefined" -> <<"u", "n", "d", "e", "f", "i", "n", "e", "d">>
      [] v.type = "null" -> <<"n", "u", "l", "l">>
      [] OTHER -> v.chars

\* MissingField with the test of message left out.
MissingFieldButMessage(b) ==
    \/ Falsy(b.name)
    \/ Falsy(b.email)
    \/ Falsy(b.subject)

\* !name || !email || !subject || !message
MissingField(b) ==
    \/ Falsy(b.name)
    \/ Falsy(b.email)
    \/ Falsy(b.subject)
    \/ Falsy(b.message)

\* [^\s@]
NotSpaceNorAt(c) == c \notin {" ", "@"}

\* emailRegex = /^[^\s@]+@[^\s@]+\.[^\s@]+$/ as the automaton it denotes.
\* The places: start; local (inside the first [^\s@]+); at (after the @);
\* domain (inside the second [^\s@]+); dot (after the \.); tld (inside the
\* third [^\s@]+, where $ accepts).  EmailStep is the set of places one
\* character leads to.
EmailStep(q, c) ==
    CASE q = "start"  -> IF NotSpaceNorAt(c) THEN {"local"} ELSE {}
      [] q = "local"  -> (IF NotSpaceNorAt(c) THEN {"local"} ELSE {})
                         \cup (IF c = "@" THEN {"at"} ELSE {})
      [] q = "at"     -> IF NotSpaceNorAt(c) THEN {"domain"} ELSE {}
      [] q = "domain" -> (IF NotSpaceNorAt(c) THEN {"domain"} ELSE {})
                         \cup (IF c = "." THEN {"dot"} ELSE {})
      [] q = "dot"    -> IF NotSpaceNorAt(c) THEN {"tld"} ELSE {}
      [] q = "tld"    -> IF NotSpaceNorAt(c) THEN {"tld"} ELSE {}

RECURSIVE EmailRun(_, _)
EmailRun(qs, cs) ==
    IF cs = <<>> THEN qs
    ELSE EmailRun(UNION { EmailStep(q, Head(cs)) : q \in qs }, Tail(cs))

\* emailRegex with the \. and the last [^\s@]+ left out.
RegexTestWithoutDot(cs) == EmailRun({"start"}, cs) \cap {"domain", "tld"} # {}

\* emailRegex.test(cs)
RegexTest(cs) == "tld" \in EmailRun({"start"}, cs)

\* emailRegex.test(email)
EmailMatches(b) == RegexTest(StringOf(b.email))

\* name.trim(), ... : a TypeError when the value has no trim()
TrimThrows(b) ==
    \E v \in {b.name, b.email, b.subject, b.message} : v.type # "string"

\* String.prototype.trim
RECURSIVE TrimStart(_)
TrimStart(cs) ==
    IF cs # <<>> /\ Head(cs) = " " THEN TrimStart(Tail(cs)) ELSE cs
RECURSIVE TrimEnd(_)
TrimEnd(cs) ==
    IF cs # <<>> /\ cs[Len(cs)] = " "
    THEN TrimEnd(SubSeq(cs, 1, Len(cs) - 1)) ELSE cs
Trim(cs) == TrimEnd(TrimStart(cs))

\* ContactSchema: `required` refuses a string that is '' once trimmed
SchemaRefuses(b) ==
    \E v \in {b.name, b.email, b.subject, b.message} : Trim(v.chars) = <<>>

\* new Contact({...}): status takes the schema's default.  by and touched are
\* history: the request that created the record, and whether an update
\* has been applied to it since.
NewContact(r) == [status |-> DefaultStatus, by |-> r, touched |-> FALSE]

ContactFailMessage == "Failed to send message. Please try again later."
ContactSentMessage ==
    "Message sent successfully! You will receive a confirmation email shortly."

\* catch (error) of the contact handler
ContactCatch(r, what) ==
    /\ fail' = [fail EXCEPT ![r] = what]
    /\ Reply(r, 500, ContactFailMessage)

\* The handler body up to its first await: validation, then new Contact.
ContactHandler(r) ==
    /\ pc[r] = "handler"
    /\ req[r].route = "POST /api/contact"
    /\ IF MissingField(req[r].body)
       THEN Reply(r, 400, "All fields are required") /\ UNCHANGED fail
       ELSE IF ~EmailMatches(req[r].body)
       THEN Reply(r, 400, "Invalid email format") /\ UNCHANGED fail
       ELSE IF TrimThrows(req[r].body)
       THEN ContactCatch(r, "trim")
       ELSE Goto(r, "contact.save") /\ UNCHANGED fail
    /\ UNCHANGED <<req, user, ran, found, viewsRead, trk, wrote, sent>>
    /\ UNCHANGED <<stores, overlap, contactHits, limiterVars>>

\* await contact.save()
ContactSave(r) ==
    /\ pc[r] = "contact.save"
    /\ \/ \* the document validates and the insert succeeds
          /\ ~SchemaRefuses(req[r].body)
          /\ contacts' = Append(contacts, NewContact(r))
          /\ wrote' = [wrote EXCEPT ![r] = @ \cup {"Contact"}]
          /\ Goto(r, "sendMail admin")
          /\ UNCHANGED fail
       \/ \* validation or the insert rejects
          /\ ContactCatch(r, "contact.save")
          /\ UNCHANGED <<contacts, wrote>>
    /\ UNCHANGED <<req, user, ran, found, viewsRead, trk, sent>>
    /\ UNCHANGED <<visitors, views, projects, overlap, contactHits, limiterVars>>

\* SendAdmin going on to the second send when the first one failed.
SendAdminCarryingOn(r) ==
    /\ pc[r] = "sendMail admin"
    /\ sent' = [sent EXCEPT ![r] = Append(@, "admin")]
    /\ \/ Goto(r, "sendMail reply") /\ UNCHANGED fail
       \/ /\ fail' = [fail EXCEPT ![r] = "sendMail admin"]
          /\ Goto(r, "sendMail reply")
    /\ UNCHANGED <<req, user, ran, found, viewsRead, trk, wrote>>
    /\ UNCHANGED <<stores, overlap, contactHits, limiterVars>>

\* await transporter.sendMail(mailOptions)
SendAdmin(r) ==
    /\ pc[r] = "sendMail admin"
    /\ sent' = [sent EXCEPT ![r] = Append(@, "admin")]
    /\ \/ Goto(r, "sendMail reply") /\ UNCHANGED fail
       \/ ContactCatch(r, "sendMail admin")
    /\ UNCHANGED <<req, user, ran, found, viewsRead, trk, wrote>>
    /\ UNCHANGED <<stores, overlap, contactHits, limiterVars>>

\* SendReply undoing the insert when the send fails.
SendReplyRollingBack(r) ==
    /\ pc[r] = "sendMail reply"
    /\ sent' = [sent EXCEPT ![r] = Append(@, "reply")]
    /\ \/ Reply(r, 200, ContactSentMessage) /\ UNCHANGED <<fail, contacts>>
       \/ /\ ContactCatch(r, "sendMail reply")
          /\ contacts' = SelectSeq(contacts, LAMBDA c : c.by # r)
    /\ UNCHANGED <<req, user, ran, found, viewsRead, trk, wrote>>
    /\ UNCHANGED <<visitors, views, projects, overlap, contactHits, limiterVars>>

\* SendReply answering 200 whether or not the send failed.
SendReplyUnawaited(r) ==
    /\ pc[r] = "sendMail reply"
    /\ sent' = [sent EXCEPT ![r] = Append(@, "reply")]
    /\ \/ Reply(r, 200, ContactSentMessage) /\ UNCHANGED fail
       \/ /\ fail' = [fail EXCEPT ![r] = "sendMail reply"]
          /\ Reply(r, 200, ContactSentMessage)
    /\ UNCHANGED <<req, user, ran, found, viewsRead, trk, wrote>>
    /\ UNCHANGED <<stores, overlap, contactHits, limiterVars>>

\* await transporter.sendMail(autoReplyOptions), then the 200
SendReply(r) ==
    /\ pc[r] = "sendMail reply"
    /\ sent' = [sent EXCEPT ![r] = Append(@, "reply")]
    /\ \/ Reply(r, 200, ContactSentMessage) /\ UNCHANGED fail
       \/ ContactCatch(r, "sendMail reply")
    /\ UNCHANGED <<req, user, ran, found, viewsRead, trk, wrote>>
    /\ UNCHANGED <<stores, overlap, contactHits, limiterVars>>

\* ------------------------------------- GET /api/projects and GET /api/blog
\* Project.find(...) / Blog.find(...): a read, then the list or the 500.
ListHandler(r) ==
    /\ pc[r] = "handler"
    /\ req[r].route \in {"GET /api/projects", "GET /api/blog"}
    /\ \/ Reply(r, 200, "") /\ UNCHANGED fail
       \/ /\ fail' = [fail EXCEPT ![r] = "find"]
          /\ Reply(r, 500, IF req[r].route = "GET /api/projects"
                           THEN "Failed to fetch projects"
                           ELSE "Failed to fetch blog posts")
    /\ UNCHANGED <<req, user, ran, found, viewsRead, trk, wrote, sent>>
    /\ UNCHANGED <<stores, overlap, contactHits, limiterVars>>

\* ----------------------------------------------------- GET /api/blog/:slug
\* await Blog.findOne({ slug }), the 404, and blog.views += 1 on the loaded copy
BlogFind(r) ==
    /\ pc[r] = "handler"
    /\ req[r].route = "GET /api/blog/:slug"
    /\ \/ /\ req[r].slug \in DOMAIN views
          /\ viewsRead' = [viewsRead EXCEPT ![r] = views[req[r].slug]]
          /\ Goto(r, "blog.save")
          /\ UNCHANGED fail
       \/ /\ req[r].slug \notin DOMAIN views
          /\ Reply(r, 404, "Blog post not found")
          /\ UNCHANGED <<fail, viewsRead>>
       \/ /\ fail' = [fail EXCEPT ![r] = "blog.findOne"]
          /\ Reply(r, 500, "Failed to fetch blog post")
          /\ UNCHANGED viewsRead
    /\ UNCHANGED <<req, user, ran, found, trk, wrote, sent>>
    /\ UNCHANGED <<stores, overlap, contactHits, limiterVars>>

\* The views the save writes: the loaded value plus one ($set of the path).
BumpedViews(r) == viewsRead[r] + 1

\* await blog.save(), then res.json(blog)
BlogSave(r) ==
    /\ pc[r] = "blog.save"
    /\ \/ /\ views' = [views EXCEPT ![req[r].slug] = BumpedViews(r)]
          /\ wrote' = [wrote EXCEPT ![r] = @ \cup {"Blog"}]
          /\ Reply(r, 200, "")
          /\ UNCHANGED fail
       \/ /\ fail' = [fail EXCEPT ![r] = "blog.save"]
          /\ Reply(r, 500, "Failed to fetch blog post")
          /\ UNCHANGED <<views, wrote>>
    /\ viewsRead' = [viewsRead EXCEPT ![r] = 0]
    /\ UNCHANGED <<req, user, ran, found, trk, sent>>
    /\ UNCHANGED <<contacts, visitors, projects, overlap, contactHits, limiterVars>>

\* --------------------------------------------------------- authenticateToken
\* authHeader && authHeader.split(' ')[1]
HasToken(tk) == tk \notin {"none", "malformed"}

\* TokenVerifies with the expiry ignored.
TokenVerifiesIgnoringExpiry(tk) == tk \in {"valid", "expired"}

\* jwt.verify(token, secret, cb) calls back without err
TokenVerifies(tk) == tk = "valid"

AfterAuth(rt) == IF rt = "POST /api/projects" THEN "upload.single" ELSE "handler"

AuthenticateToken(r) ==
    /\ pc[r] = "authenticateToken"
    /\ IF ~HasToken(req[r].token)
       THEN Reply(r, 401, "Access token required") /\ UNCHANGED <<user, ran>>
       ELSE IF ~TokenVerifies(req[r].token)
       THEN Reply(r, 403, "Invalid token") /\ UNCHANGED <<user, ran>>
       ELSE /\ user' = [user EXCEPT ![r] = TRUE]
            /\ IF AfterAuth(req[r].route) = "handler"
               THEN EnterHandler(r)
               ELSE Goto(r, AfterAuth(req[r].route)) /\ UNCHANGED ran
    /\ UNCHANGED <<req, found, viewsRead, trk, wrote, sent, fail>>
    /\ UNCHANGED <<stores, overlap, contactHits, limiterVars>>

\* ---------------------------------- GET /api/analytics, /api/admin/contacts
\* countDocuments, find, aggregate: reads only, then the JSON or the 500.
ReadHandler(r) ==
    /\ pc[r] = "handler"
    /\ req[r].route \in {"GET /api/analytics", "GET /api/admin/contacts"}
    /\ \/ Reply(r, 200, "") /\ UNCHANGED fail
       \/ /\ fail' = [fail EXCEPT ![r] = "find"]
          /\ Reply(r, 500, IF req[r].route = "GET /api/analytics"
                           THEN "Failed to fetch analytics"
                           ELSE "Failed to fetch contacts")
    /\ UNCHANGED <<req, user, ran, found, viewsRead, trk, wrote, sent>>
    /\ UNCHANGED <<stores, overlap, contactHits, limiterVars>>

\* ------------------------------------------------------ POST /api/projects
\* multer: fileFilter runs when the part starts, the size limit while it
\* streams.  The error each rejection passes to next(err), "none" if the
\* upload goes through.
UploadError(f) ==
    IF f = "badtype" THEN "Error: Only image files are allowed!"
    ELSE IF f = "toolarge" THEN "MulterError: LIMIT_FILE_SIZE"
    ELSE "none"

\* app.use((error, req, res, next) => ...): the status and the message
ErrorStatus(err) == IF err = "MulterError: LIMIT_FILE_SIZE" THEN 400 ELSE 500
ErrorMessage(err) ==
    IF err = "MulterError: LIMIT_FILE_SIZE"
    THEN "File too large. Maximum size is 5MB."
    ELSE "Internal server error"

\* upload.single('image')
Upload(r) ==
    /\ pc[r] = "upload.single"
    /\ IF UploadError(req[r].file) = "none"
       THEN EnterHandler(r)
       ELSE /\ Reply(r, ErrorStatus(UploadError(req[r].file)),
                        ErrorMessage(UploadError(req[r].file)))
            /\ UNCHANGED ran
    /\ UNCHANGED <<req, user, found, viewsRead, trk, wrote, sent, fail>>
    /\ UNCHANGED <<stores, overlap, contactHits, limiterVars>>

\* The handler body up to its await: technologies.split(',') throws on undefined.
ProjectHandler(r) ==
    /\ pc[r] = "handler"
    /\ req[r].route = "POST /api/projects"
    /\ IF req[r].pbody = "notech"
       THEN /\ fail' = [fail EXCEPT ![r] = "split"]
            /\ Reply(r, 500, "Failed to create project")
       ELSE Goto(r, "project.save") /\ UNCHANGED fail
    /\ UNCHANGED <<req, user, ran, found, viewsRead, trk, wrote, sent>>
    /\ UNCHANGED <<stores, overlap, contactHits, limiterVars>>

\* await project.save(), then the 201
ProjectSave(r) ==
    /\ pc[r] = "project.save"
    /\ \/ /\ req[r].pbody # "notitle"
          /\ projects' = Append(projects, [by |-> r, image |-> req[r].file # "none"])
          /\ wrote' = [wrote EXCEPT ![r] = @ \cup {"Project"}]
          /\ Reply(r, 201, "Project created successfully")
          /\ UNCHANGED fail
       \/ /\ fail' = [fail EXCEPT ![r] = "project.save"]
          /\ Reply(r, 500, "Failed to create project")
          /\ UNCHANGED <<projects, wrote>>
    /\ UNCHANGED <<req, user, ran, found, viewsRead, trk, sent>>
    /\ UNCHANGED <<contacts, visitors, views, overlap, contactHits, limiterVars>>

\* ------------------------------------------- PATCH /api/admin/contacts/:id
\* The records findByIdAndUpdate can leave: a status is cast to String and
\* $set; update validators are off unless runValidators is passed, and the
\* call passes { new: true } only.  An undefined status is dropped from the
\* update or written as null, by the Mongoose release.
PatchedContact(c, st) ==
    IF st = "absent"
    THEN {c, [c EXCEPT !.status = "null", !.touched = TRUE]}
    ELSE {[c EXCEPT !.status = st, !.touched = TRUE]}

PatchHandler(r) ==
    /\ pc[r] = "handler"
    /\ req[r].route = "PATCH /api/admin/contacts/:id"
    /\ \/ \* the id casts and the command succeeds
          /\ req[r].id # 0
          /\ IF req[r].id \in 1..Len(contacts)
             THEN /\ \E c \in PatchedContact(contacts[req[r].id], req[r].status) :
                        contacts' = [contacts EXCEPT ![req[r].id] = c]
                  /\ wrote' = [wrote EXCEPT ![r] = @ \cup {"Contact"}]
                  /\ Reply(r, 200, "Contact updated successfully")
             ELSE /\ Reply(r, 404, "Contact not found")
                  /\ UNCHANGED <<contacts, wrote>>
          /\ UNCHANGED fail
       \/ \* CastError for the id, or the command rejects
          /\ fail' = [fail EXCEPT ![r] = "findByIdAndUpdate"]
          /\ Reply(r, 500, "Failed to update contact")
          /\ UNCHANGED <<contacts, wrote>>
    /\ UNCHANGED <<req, user, ran, found, viewsRead, trk, sent>>
    /\ UNCHANGED <<visitors, views, projects, overlap, contactHits, limiterVars>>

\* ------------------------------------------------------------------- specs
TrackerSteps(r) ==
    \/ TrackFind(r)
    \/ TrackSave(r)

ContactSteps(r) ==
    \/ ContactLimiter(r)
    \/ ContactHandler(r)
    \/ ContactSave(r)
    \/ SendAdmin(r)
    \/ SendReply(r)

BlogSteps(r) ==
    \/ BlogFind(r)
    \/ BlogSave(r)

AdminSteps(r) ==
    \/ AuthenticateToken(r)
    \/ ReadHandler(r)
    \/ Upload(r)
    \/ ProjectHandler(r)
    \/ ProjectSave(r)
    \/ PatchHandler(r)

\* Every route, every input.
Next ==
    \E r \in Reqs :
        \/ Arrive(r, AllRequests)
        \/ TrackerSteps(r)
        \/ ContactSteps(r)
        \/ ListHandler(r)
        \/ BlogSteps(r)
        \/ AdminSteps(r)

Spec == Init /\ [][Next]_vars

\* The contact form alone, from one address.
NextContact ==
    \E r \in Reqs :
        \/ Arrive(r, ContactRequests({"ip1"}))
        \/ TrackerSteps(r)
        \/ ContactSteps(r)

SpecContact == Init /\ [][NextContact]_vars

\* One submission of the contact form, with every body.  The validation
\* reads nothing but the body of its own request.
NextValidator ==
    \E r \in Reqs :
        /\ r = 1
        /\ \/ Arrive(r, ValidatorRequests)
           \/ TrackerSteps(r)
           \/ ContactSteps(r)

SpecValidator == Init /\ [][NextValidator]_vars

\* The tracked GET routes, from both addresses.
NextVisitors ==
    \E r \in Reqs :
        \/ Arrive(r, ListRequests(Addrs) \cup BlogRequests(Addrs))
        \/ TrackerSteps(r)
        \/ ListHandler(r)
        \/ BlogSteps(r)

SpecVisitors == Init /\ [][NextVisitors]_vars

\* The four tracked routes, from one address.
NextTracked ==
    \E r \in Reqs :
        \/ Arrive(r, TrackedRequests)
        \/ TrackerSteps(r)
        \/ ContactSteps(r)
        \/ ListHandler(r)
        \/ BlogSteps(r)

SpecTracked == Init /\ [][NextTracked]_vars

\* The protected routes: every token on every route, and behind a valid
\* token the handlers on the inputs that decide what they write.
GateRequests ==
    { rq \in AdminRequests :
        /\ rq.pbody \in {"-", "ok"}
        /\ rq.status \in {"-", "read", "bogus"} }

NextAdmin ==
    \E r \in Reqs :
        \/ Arrive(r, GateRequests)
        \/ AdminSteps(r)

SpecAdmin == InitAdmin /\ [][NextAdmin]_vars

\* ------------------------------------------------------------ the limiters
\* app.use(limiter) runs first on every route, contactLimiter next on POST
\* /api/contact; both count and decide before any await.  A request the
\* general limiter refuses never reaches contactLimiter.  What the route
\* answers to an admitted request is left open here.
LimiterRoutes == {"POST /api/contact", "GET /api/health"}

HandlerCodes(rt) == IF rt = "POST /api/contact" THEN {200, 400, 500} ELSE {200}

Outcome(a, rt, adm, code, message) ==
    [message |-> message, route |-> rt, addr |-> a, code |-> code, admitted |-> adm]

LimitedRequest(a, rt) ==
    /\ nlim < MaxLimiterReqs
    /\ nlim' = nlim + 1
    /\ hits' = Hit(hits, a, GeneralMax)
    /\ IF OverLimit(hits', a, GeneralMax)
       THEN /\ last' = Outcome(a, rt, FALSE, 429, GeneralLimitMessage)
            /\ made' = [made EXCEPT ![a].all =
                            IF rt = "POST /api/contact" THEN @ + 1 ELSE @]
            /\ UNCHANGED contactHits
       ELSE IF rt = "POST /api/contact"
       THEN /\ contactHits' = Hit(contactHits, a, ContactMax)
            /\ made' = [made EXCEPT ![a].all = @ + 1, ![a].admitted = @ + 1]
            /\ IF OverLimit(contactHits', a, ContactMax)
               THEN last' = Outcome(a, rt, TRUE, 429, ContactLimitMessage)
               ELSE \E code \in HandlerCodes(rt) : last' = Outcome(a, rt, TRUE, code, "")
       ELSE /\ \E code \in HandlerCodes(rt) : last' = Outcome(a, rt, TRUE, code, "")
            /\ UNCHANGED <<contactHits, made>>
    /\ UNCHANGED <<perReq, stores, overlap>>

\* windowMs of limiter has passed for the address: its count starts again.
GeneralWindowEnds(a) ==
    /\ hits[a] > 0
    /\ hits' = [hits EXCEPT ![a] = 0]
    /\ UNCHANGED <<perReq, stores, overlap, contactHits, made, last, nlim>>

\* windowMs of contactLimiter has passed for the address.
ContactWindowEnds(a) ==
    /\ made[a].all > 0
    /\ contactHits' = [contactHits EXCEPT ![a] = 0]
    /\ made' = [made EXCEPT ![a] = [admitted |-> 0, all |-> 0]]
    /\ UNCHANGED <<perReq, stores, overlap, hits, last, nlim>>

NextLimiter ==
    \E a \in Addrs :
        \/ \E rt \in LimiterRoutes : LimitedRequest(a, rt)
        \/ GeneralWindowEnds(a)
        \/ ContactWindowEnds(a)

SpecLimiter == InitLimiter /\ [][NextLimiter]_vars

\* ================================================================== claims
IsContact(r) == req[r].route = "POST /api/contact"

\* The Contact records request r created.
RecordsOf(r) == { i \in 1..Len(contacts) : contacts[i].by = r }

\* r passed the limiter and the validation and its contact.save() resolved:
\* it stands at one of the two sends, or ended in the 200 or in a failed send.
Persisted(r) ==
    \/ pc[r] \in {"sendMail admin", "sendMail reply"}
    \/ /\ pc[r] = "done"
       /\ \/ resp[r].code = 200
          \/ fail[r] \in {"sendMail admin", "sendMail reply"}

\* C1: a submission whose contact.save() resolved has exactly one Contact
\* record, created with status 'new' (and 'new' until an update is applied
\* to it), whatever the two sends do; a submission that did not get that far
\* has none.
C1_OneRecordPerSubmission ==
    \A r \in Reqs : IsContact(r) =>
        /\ Cardinality(RecordsOf(r)) = IF Persisted(r) THEN 1 ELSE 0
        /\ \A i \in RecordsOf(r) :
              ~contacts[i].touched => contacts[i].status = "new"

\* A submission whose second send failed, answered 500, with its record kept.
C1_Witness ==
    \E r \in Reqs :
        /\ IsContact(r)
        /\ pc[r] = "done"
        /\ fail[r] = "sendMail reply"
        /\ resp[r].code = 500
        /\ Cardinality(RecordsOf(r)) = 1

\* The submission of request r lacks one of name, email, subject, message.
LacksAField(r) ==
    /\ IsContact(r)
    /\ Undefined \in {req[r].body.name, req[r].body.email,
                      req[r].body.subject, req[r].body.message}

\* C2 as stated: a submission with a field missing causes no storage write
\* and no send at all.
C2_NoWriteAtAll ==
    \A r \in Reqs : LacksAField(r) =>
        /\ wrote[r] = {}
        /\ sent[r] = <<>>

\* C2, amended: a submission with a field missing is answered 400 (or 429 by
\* the limiter) with no Contact record written and no mail sent; the one
\* write its handling can make is the visitor tracker's, before validation.
C2_NoContactWriteNoSend ==
    \A r \in Reqs : LacksAField(r) =>
        /\ wrote[r] \subseteq {"Visitor"}
        /\ RecordsOf(r) = {}
        /\ sent[r] = <<>>
        /\ pc[r] \in {"idle", "contactLimiter", "trackVisitor", "visitor.save",
                      "handler", "done"}
        /\ pc[r] = "done" => resp[r].code \in {400, 429}
        /\ resp[r].code = 400 => resp[r].message = "All fields are required"

\* A submission without a message, rejected with 400 after the tracker
\* stored its visit.
C2_Witness ==
    \E r \in Reqs :
        /\ IsContact(r)
        /\ req[r].body.message = Undefined
        /\ pc[r] = "done"
        /\ resp[r].code = 400
        /\ wrote[r] = {"Visitor"}
        /\ contacts = <<>>

\* The Visitor records of address a, and the tracked requests from a
\* whose tracker stored its visit.
RecordsAt(a) == { i \in 1..Len(visitors) : visitors[i].ipAddress = a }
TrackedFrom(a) == { r \in Reqs : req[r].addr = a /\ trk[r] = "ok" }

\* C3 as stated, in every interleaving: an address whose visits were stored
\* has exactly one Visitor record, and its visitedPages holds one entry per
\* stored visit.
C3_OneRecordPerAddress ==
    \A a \in Addrs :
        /\ Cardinality(RecordsAt(a)) <= 1
        /\ \A i \in RecordsAt(a) :
              Len(visitors[i].visitedPages) = Cardinality(TrackedFrom(a))

\* C3, amended: as long as no two trackers of an address overlapped (the
\* findOne of one between the findOne and the save of another), the address
\* has one Visitor record once a visit of it was stored and none before;
\* the record holds one entry per stored visit, and is flagged returning from
\* the second on.
C3_OneRecordWhenSequential ==
    \A a \in Addrs : ~overlap[a] =>
        /\ Cardinality(RecordsAt(a)) = IF TrackedFrom(a) = {} THEN 0 ELSE 1
        /\ \A i \in RecordsAt(a) :
              /\ Len(visitors[i].visitedPages) = Cardinality(TrackedFrom(a))
              /\ visitors[i].isReturningVisitor = (Cardinality(TrackedFrom(a)) > 1)

\* Two visits of one address, one after the other: one record, two entries.
C3_Witness ==
    \E a \in Addrs :
        /\ ~overlap[a]
        /\ Cardinality(TrackedFrom(a)) = 2
        /\ \E i \in RecordsAt(a) :
              /\ Len(visitors[i].visitedPages) = 2
              /\ visitors[i].isReturningVisitor

\* The fetches of slug s that were answered with the post.
Fetched(s) ==
    { r \in Reqs : /\ req[r].route = "GET /api/blog/:slug"
                   /\ req[r].slug = s
                   /\ pc[r] = "done"
                   /\ resp[r].code = 200 }

\* C4: once every request is answered, the views of a post are its initial
\* views (0) plus the number of fetches answered with it; a fetch of an
\* unknown slug is answered 404 and writes nothing to Blog.
C4_ViewsCountFetches ==
    /\ (\A r \in Reqs : pc[r] \in {"idle", "done"}) =>
            \A s \in Slugs : views[s] = Cardinality(Fetched(s))
    /\ \A r \in Reqs :
            /\ req[r].route = "GET /api/blog/:slug"
            /\ req[r].slug \notin Slugs
            /\ pc[r] = "done"
            /\ fail[r] = "none"
            => resp[r].code = 404 /\ "Blog" \notin wrote[r]

\* C5 as stated: when the latest request is a POST /api/contact and its
\* address has made more than ContactMax of them in the contact window, it
\* was answered 429.
C5_SixthMadeIsRejected ==
    last.route = "POST /api/contact" /\ made[last.addr].all > ContactMax
        => last.code = 429

\* C5, amended: a POST /api/contact that the general limiter refused is
\* answered 429 with the general message and is not counted by the contact
\* limiter; one it admitted is answered 429 with the contact message when
\* its address has had more than ContactMax admitted in the contact window,
\* and is not answered 429 when it has had at most ContactMax, whatever
\* other addresses have sent.
C5_SixthCountedIsRejected ==
    last.route = "POST /api/contact" =>
        /\ ~last.admitted =>
              last.code = 429 /\ last.message = GeneralLimitMessage
        /\ last.admitted /\ made[last.addr].admitted > ContactMax =>
              last.code = 429 /\ last.message = ContactLimitMessage
        /\ last.admitted /\ made[last.addr].admitted \in 1..ContactMax =>
              last.code # 429

\* The sixth admitted submission of an address, refused by the contact
\* limiter, while the other address has submissions of its own counted.
C5_Witness ==
    /\ last.route = "POST /api/contact"
    /\ last.admitted
    /\ made[last.addr].admitted = ContactMax + 1
    /\ last.code = 429
    /\ last.message = ContactLimitMessage
    /\ \E b \in Addrs \ {last.addr} : made[b].admitted > 0

\* C6: on a protected route the handler body (and multer before it) runs
\* only for a request whose token verified, which then carries req.user; a
\* request with no token ends 401, one with an invalid or expired token 403,
\* neither having entered the handler or written a document.
C6_GateBeforeHandler ==
    \A r \in Reqs : req[r].route \in ProtectedRoutes =>
        /\ user[r] => req[r].token = "valid"
        /\ ran[r] > 0 \/ pc[r] \in {"upload.single", "handler", "project.save"}
              => user[r]
        /\ wrote[r] # {} => user[r]
        /\ pc[r] = "done" /\ req[r].token \in {"none", "malformed"}
              => resp[r].code = 401 /\ ran[r] = 0 /\ wrote[r] = {}
        /\ pc[r] = "done" /\ req[r].token \in {"invalid", "expired"}
              => resp[r].code = 403 /\ ran[r] = 0 /\ wrote[r] = {}
        /\ pc[r] = "done" /\ req[r].token = "valid" => user[r]

\* An expired token on PATCH, refused with 403 while a stored submission
\* stays as it was, and a valid token on the same route let through.
C6_Witness ==
    \E r, q \in Reqs :
        /\ req[r].route = "PATCH /api/admin/contacts/:id"
        /\ req[r].token = "expired"
        /\ pc[r] = "done"
        /\ resp[r].code = 403
        /\ req[q].route = "PATCH /api/admin/contacts/:id"
        /\ user[q] /\ ran[q] = 1 /\ pc[q] = "done"
        /\ Len(contacts) > 0

\* C7: every stored submission has a status of the schema's enum.
C7_StatusInEnum ==
    \A i \in 1..Len(contacts) : contacts[i].status \in StatusEnum

\* C8: on a tracked route, once the tracker has finished (stored the visit
\* or failed) the handler was entered exactly once; the handler is never
\* entered twice; and two requests with the same inputs whose handler calls
\* fared the same get the same response, whether or not their tracking
\* failed.
C8_TrackerNeverAlters ==
    /\ \A r \in Reqs : req[r].route \in TrackedRoutes =>
          /\ ran[r] <= 1
          /\ trk[r] # "none" => ran[r] = 1
          /\ pc[r] = "done" /\ trk[r] # "none" => nresp[r] = 1
    /\ \A r, q \in Reqs :
          /\ req[r].route \in TrackedRoutes
          /\ req[q] = req[r]
          /\ pc[r] = "done" /\ pc[q] = "done"
          /\ trk[r] = "failed" /\ trk[q] = "ok"
          /\ fail[r] = fail[q]
          => resp[r] = resp[q]

\* Two like submissions, one tracked and one whose tracking failed, both 200.
C8_Witness ==
    \E r, q \in Reqs :
        /\ IsContact(r)
        /\ req[q] = req[r]
        /\ trk[r] = "failed" /\ trk[q] = "ok"
        /\ pc[r] = "done" /\ pc[q] = "done"
        /\ resp[r].code = 200 /\ resp[q].code = 200

\* C9: a submission gets at most one response and, once handled, exactly
\* one, with a status of 200, 400, 429 or 500; a failed send (either one)
\* ends in the 500 with the generic message, and a 200 means both sends
\* were made, in order, and neither failed; until it is answered its
\* handling has a next step to take.
C9_OneResponse ==
    \A r \in Reqs : IsContact(r) =>
        /\ nresp[r] = IF pc[r] = "done" THEN 1 ELSE 0
        /\ pc[r] = "done" => resp[r].code \in {200, 400, 429, 500}
        /\ pc[r] = "done" /\ fail[r] \in {"sendMail admin", "sendMail reply"}
              => resp[r].code = 500 /\ resp[r].message = ContactFailMessage
        /\ pc[r] = "done" /\ resp[r].code = 200
              => sent[r] = <<"admin", "reply">> /\ fail[r] = "none"
        /\ pc[r] = "done" /\ resp[r].code = 500
              => resp[r].message = ContactFailMessage
        /\ pc[r] \notin {"idle", "done"}
              => ENABLED (TrackerSteps(r) \/ ContactSteps(r))

\* A stored submission whose first send failed, answered 500.
C9_Witness ==
    \E r \in Reqs :
        /\ IsContact(r)
        /\ pc[r] = "done"
        /\ fail[r] = "sendMail admin"
        /\ sent[r] = <<"admin">>
        /\ resp[r] = [message |-> ContactFailMessage, code |-> 500]
        /\ RecordsOf(r) # {}

\* C10: an upload multer rejects (type outside the allow-list, or over
\* 5MB) is answered 400, and the request creates no Project.
C10_RejectedUploadIs400 ==
    \A r \in Reqs :
        /\ req[r].route = "POST /api/projects"
        /\ req[r].file \in {"badtype", "toolarge"}
        /\ user[r]
        /\ pc[r] = "done"
        => /\ resp[r].code = 400
           /\ \A i \in 1..Len(projects) : projects[i].by # r

\* The handler of submission r has run its validation.
Validated(r) == IsContact(r) /\ ran[r] > 0 /\ pc[r] # "handler"

\* The validation answered r with a 400.
Rejected(r) == pc[r] = "done" /\ resp[r].code = 400

\* The text cs has the shape local@domain.tld: one @, no white space, a
\* character before the @, and after it a dot with a character on each side.
MatchesPattern(cs) ==
    \E i \in 1..Len(cs) :
        /\ cs[i] = "@"
        /\ i > 1
        /\ \A k \in 1..Len(cs) : k # i => cs[k] \notin {" ", "@"}
        /\ \E j \in (i + 2)..(Len(cs) - 1) : cs[j] = "."

\* The text cs has no @; the text cs has no dot after its last @.
NoAt(cs) == \A k \in 1..Len(cs) : cs[k] # "@"
NoDomainDot(cs) ==
    \A j \in 1..Len(cs) :
        cs[j] = "." => \E k \in (j + 1)..Len(cs) : cs[k] = "@"

FieldsOf(r) ==
    {req[r].body.name, req[r].body.email, req[r].body.subject, req[r].body.message}

\* The value v is absent: the body has no such key, or has null there.
Absent(v) == v \in {Undefined, Null}

\* C11 as stated: the validation answers 400 when a field is absent and
\* when the email does not match local@domain.tld (so when it has no @ or
\* no dot in its domain part), and lets through every submission whose four
\* fields are present and whose email matches.
C11_PresentAndMatchingPasses ==
    \A r \in Reqs : Validated(r) =>
        /\ (\E v \in FieldsOf(r) : Absent(v)) => Rejected(r)
        /\ ~MatchesPattern(StringOf(req[r].body.email)) => Rejected(r)
        /\ NoAt(StringOf(req[r].body.email)) => Rejected(r)
        /\ NoDomainDot(StringOf(req[r].body.email)) => Rejected(r)
        /\ (\A v \in FieldsOf(r) : ~Absent(v))
           /\ MatchesPattern(StringOf(req[r].body.email)) => ~Rejected(r)

\* C11, amended: the validation answers 400 exactly when one of the four
\* fields is absent or empty (undefined, null, '') or the email does not
\* match local@domain.tld; so it does for every email with no @ or with no
\* dot in its domain part, and a submission whose four fields are all
\* non-empty and whose email matches is let through to the record's
\* construction.  The first test answers 'All fields are required', the
\* second 'Invalid email format'.
C11_NonEmptyAndMatchingPasses ==
    \A r \in Reqs : Validated(r) =>
        /\ Rejected(r) <=>
              \/ \E v \in FieldsOf(r) : Absent(v) \/ v = Str(<<>>)
              \/ ~MatchesPattern(StringOf(req[r].body.email))
        /\ NoAt(StringOf(req[r].body.email)) => Rejected(r)
        /\ NoDomainDot(StringOf(req[r].body.email)) => Rejected(r)
        /\ Rejected(r) =>
              resp[r].message =
                  IF \E v \in FieldsOf(r) : Absent(v) \/ v = Str(<<>>)
                  THEN "All fields are required"
                  ELSE "Invalid email format"
        /\ ~Rejected(r) =>
              \/ pc[r] \in {"contact.save", "sendMail admin", "sendMail reply"}
              \/ pc[r] = "done" /\ resp[r].code \in {200, 500}

\* A submission of four non-empty strings whose email has an @ and no dot
\* after it, answered 400 'Invalid email format'.
C11_Witness ==
    \E r \in Reqs :
        /\ Validated(r)
        /\ \A v \in FieldsOf(r) : v.type = "string" /\ v.chars # <<>>
        /\ ~NoAt(req[r].body.email.chars)
        /\ NoDomainDot(req[r].body.email.chars)
        /\ Rejected(r)
        /\ resp[r].message = "Invalid email format"
        /\ wrote[r] \subseteq {"Visitor"}

\* C12: the two sends of a submission are made in order, each at most once:
\* the admin alert first, and only once the record is stored; the
\* acknowledgment only once the admin alert has resolved; a send that
\* rejects ends the request, with nothing sent again.
C12_SendsInOrderOnce ==
    \A r \in Reqs : IsContact(r) =>
        /\ sent[r] \in {<<>>, <<"admin">>, <<"admin", "reply">>}
        /\ sent[r] # <<>> => Cardinality(RecordsOf(r)) = 1
        /\ pc[r] = "sendMail admin" => sent[r] = <<>>
        /\ pc[r] = "sendMail reply" => sent[r] = <<"admin">> /\ fail[r] = "none"
        /\ sent[r] = <<"admin", "reply">> =>
              pc[r] = "done" /\ fail[r] \in {"none", "sendMail reply"}
        /\ fail[r] = "sendMail admin" => sent[r] = <<"admin">> /\ pc[r] = "done"
        /\ fail[r] \in {"sendMail admin", "sendMail reply"} =>
              pc[r] = "done" /\ resp[r].code = 500
        /\ fail[r] \notin {"none", "sendMail admin", "sendMail reply"} =>
              sent[r] = <<>>

\* A submission answered 200 after both sends, the alert then the
\* acknowledgment, with its record stored.
C12_Witness ==
    \E r \in Reqs :
        /\ IsContact(r)
        /\ pc[r] = "done"
        /\ resp[r].code = 200
        /\ fail[r] = "none"
        /\ sent[r] = <<"admin", "reply">>
        /\ Cardinality(RecordsOf(r)) = 1

====
